---- MODULE Spec2Model ----
\* Model of the Pyodide session manager of react-pyodide
\* (src/src/components/PyodideProvider.tsx): the provider's React state, the
\* interpreter instances it creates, and the asynchronous operations
\* initPyodide, installPackage and runPython, one step per `await`.
EXTENDS Integers, Sequences, FiniteSets

\* ---------------------------------------------------------------- bounds
MaxCalls == 2      \* call slots: operations that can be in flight together
MaxStarts == 2     \* operations started in one behaviour

\* ------------------------------------------------------------- constants
COMMON_PACKAGES == {"numpy", "pandas"}

\* Names the namespace reset keeps.
PRESERVED == {"sys", "js", "__name__", "__doc__", "io", "StdoutCatcher", "micropip"}

\* Effect runs of the provider: one in a production build, two under the
\* development StrictMode mount.
EffectRuns == 2

Calls == 1..MaxCalls
Insts == 1..EffectRuns

\* Distributions a caller may ask for.  "m1" ships the module m1; "Pillow"
\* installs fine but ships the module PIL, so `import Pillow` keeps failing.
Packages == {"m1", "Pillow"}
Provides(name) == IF name = "Pillow" THEN {"PIL"} ELSE {name}

\* Global names of the interpreter the model tracks.
Names == PRESERVED \cup {"x", "output", "m1", "Pillow"}

\* Owner of a binding: Absent, Engine (bound by the session manager's own
\* code), or the start number of the runPython call whose user code bound it.
Absent == -1
Engine == 0

\* ------------------------------------------------------------ user code
PrintStmt(t) == [op |-> "print", arg |-> t]
BindStmt(n) == [op |-> "bind", arg |-> n]
ImportStmt(m) == [op |-> "import", arg |-> m]
RaiseStmt == [op |-> "raise", arg |-> "ZeroDivisionError"]

Codes == {"pure", "div0", "imp1", "imp2", "impP"}

\* What FunctionBox runs: the function of the box wrapped in try/except and
\* called; "boxOk" prints the result, in "boxErr" the function raises and the
\* except branch prints the error.
BoxCodes == {"boxOk", "boxErr"}
Prog(code) ==
  CASE code = "pure" -> <<BindStmt("x"), BindStmt("js"), PrintStmt("a"), PrintStmt("b")>>
    [] code = "div0" -> <<PrintStmt("a"), BindStmt("x"), RaiseStmt>>
    [] code = "imp1" -> <<BindStmt("x"), PrintStmt("a"), ImportStmt("m1"), PrintStmt("b")>>
    [] code = "imp2" -> <<ImportStmt("m1"), PrintStmt("a"), ImportStmt("Pillow")>>
    [] code = "impP" -> <<ImportStmt("Pillow"), PrintStmt("a")>>
    [] code = "boxOk" -> <<BindStmt("x"), PrintStmt("Result:")>>
    [] code = "boxErr" -> <<PrintStmt("Error:")>>

\* ---------------------------------------------------------------- errors
NoError == [kind |-> "none", m |-> "", cause |-> "", causeM |-> ""]
Err(k, m) == [kind |-> k, m |-> m, cause |-> "", causeM |-> ""]
NotInitialized == Err("NotInitialized", "")
ModuleNotFound(m) == Err("ModuleNotFoundError", m)
InstallerError == Err("InstallerError", "")
AttributeError == Err("AttributeError", "")

\* ---------------------------------------------------------------- tokens
Out(who, t) == [k |-> "out", who |-> who, v |-> t]
AttemptLine(m) == [k |-> "attempt", who |-> 0, v |-> m]
InstalledLine(m) == [k |-> "installed", who |-> 0, v |-> m]

VARIABLES
  pyodide,          \* useState: 0 (null) or the interpreter instance
  loading,          \* useState
  error,            \* useState: "null" or "set"
  loadedPackages,   \* useState
  strict,           \* whether the development StrictMode double effect applies
  initPc,           \* position of each initPyodide run
  py,               \* the interpreter instances
  catcher,          \* text held by the StdoutCatcher each call created
  calls,            \* the operations in flight, with their closures
  starts,           \* operations started so far
  lastOutcome,      \* outcome of the most recently settled runPython call
  ipDone,           \* names for which an installPackage call has succeeded
  consoleLog,       \* capturing wrappers installed on console.log (0: original)
  jsResult,         \* outcome of the latest runJavaScript call
  editor,           \* props and useState of the CodeEditor component
  box,              \* props and useState of a FunctionBox component
  chat              \* useState of the ChatBox component and its request in flight

vars == <<pyodide, loading, error, loadedPackages, strict, initPc, py, catcher,
          calls, starts, lastOutcome, ipDone, consoleLog, jsResult,
          editor, box, chat>>

js == <<consoleLog, jsResult>>

ui == <<editor, box, chat>>

\* The variables of the provider and of the interpreters.
session == <<pyodide, loading, error, loadedPackages, strict, initPc, py,
             catcher, calls, starts, lastOutcome, ipDone>>

provider == <<pyodide, loading, error, loadedPackages>>

\* --------------------------------------------------------- the interpreter
NoGlobals == [n \in Names |-> Absent]

NoInst == [exists |-> FALSE, g |-> NoGlobals, stdout |-> 0, installed |-> {}]

\* A fresh interpreter: only the dunder names are bound.
FreshInst ==
  [exists |-> TRUE,
   g |-> [n \in Names |-> IF n \in {"__name__", "__doc__"} THEN Engine ELSE Absent],
   stdout |-> 0,
   installed |-> {}]

\* Run the statements of a program from position i on the state
\* st = [g, out, err]; stops at the first statement that raises.
RECURSIVE ExecFrom(_, _, _, _, _)
ExecFrom(prog, i, who, installed, st) ==
  IF i > Len(prog) THEN st
  ELSE LET s == prog[i] IN
    CASE s.op = "print" ->
           ExecFrom(prog, i + 1, who, installed,
                    [st EXCEPT !.out = Append(@, Out(who, s.arg))])
      [] s.op = "bind" ->
           ExecFrom(prog, i + 1, who, installed,
                    [st EXCEPT !.g[s.arg] = who])
      [] s.op = "import" ->
           IF s.arg \in installed
             THEN ExecFrom(prog, i + 1, who, installed,
                           [st EXCEPT !.g[s.arg] = who])
             ELSE [st EXCEPT !.err = ModuleNotFound(s.arg)]
      [] s.op = "raise" -> [st EXCEPT !.err = Err(s.arg, "")]

Exec(code, who, inst) ==
  ExecFrom(Prog(code), 1, who, inst.installed,
           [g |-> inst.g, out |-> <<>>, err |-> NoError])

\* Text written to sys.stdout lands in the catcher it points at; text written
\* to the original stream (stdout = 0) goes to the console and is not kept.
WriteOut(inst, cat, toks) ==
  IF inst.stdout = 0 THEN cat ELSE [cat EXCEPT ![inst.stdout] = @ \o toks]

\* --------------------------------------------------------- runJavaScript
\* Source texts for runJavaScript: "log" logs and returns, "throw" logs and
\* throws an Error, "throwNull" throws null, "syntax" does not parse.
JsCodes == {"log", "throw", "throwNull", "syntax"}

\* What runJavaScript handed to its caller: the object it returned (error
\* field and stdout), or threw = TRUE when an exception escaped.  failed
\* records whether the evaluation of the source text failed.
NoJsResult ==
  [called |-> FALSE, threw |-> FALSE, hasError |-> FALSE, error |-> "",
   stdout |-> <<>>, failed |-> FALSE]

\* ------------------------------------------------------------ components
\* The hello-world texts of CodeEditor.
PyTemplate == "# Write your Python code here"
JsTemplate == "// Write your JavaScript code here"
Template(language) == IF language = "python" THEN PyTemplate ELSE JsTemplate

\* A prop that was not passed.
Undefined == "undefined"

\* JavaScript truthiness of an optional string, and String.trim on the
\* texts of the model (" " is the text made of white space).
Truthy(s) == s # Undefined /\ s # ""
Trim(s) == IF s = " " THEN "" ELSE s

\* The default parameter of the defaultValue prop of CodeEditor.
DefaultValue(prop) == IF prop = Undefined THEN PyTemplate ELSE prop

\* The text of an output panel: what it reports and the captured text.
Shown(k, text) == [k |-> k, text |-> text]
NoOutput == Shown("", <<>>)

\* useState of CodeEditor after its first render and its two mount effects.
\* run and inst are the start numbers of the runPython and installPackage
\* calls the handlers executeCode and handleInstallPackage are awaiting.
NewEditor(defaultLanguage, defaultValueProp, initialCode) ==
  [defaultValue |-> DefaultValue(defaultValueProp),
   initialCode |-> initialCode,
   language |-> defaultLanguage,
   code |-> IF Truthy(initialCode) THEN initialCode
            ELSE IF Truthy(DefaultValue(defaultValueProp))
              THEN DefaultValue(defaultValueProp)
              ELSE Template(defaultLanguage),
   output |-> NoOutput,
   isExecuting |-> FALSE,
   packageName |-> "",
   isInstallingPackage |-> FALSE,
   isDiffMode |-> FALSE,
   originalCode |-> <<>>,
   modifiedCode |-> "",
   run |-> 0,
   inst |-> 0]

\* useState of FunctionBox after its first render.
NewBox(defaultCode, parameterDefault) ==
  [code |-> defaultCode,
   parameters |-> parameterDefault,
   output |-> NoOutput,
   isExecuting |-> FALSE,
   run |-> 0]

\* useState of ChatBox after its first render; pending holds the ids of the
\* loading messages of the requests in flight, sent counts the requests.
NewChat ==
  [messages |-> <<>>, input |-> "", isLoading |-> FALSE, error |-> "null",
   pending |-> {}, sent |-> 0]

\* The components as App mounts them, before any event.
AppMounted ==
  /\ editor = NewEditor("python", Undefined, Undefined)
  /\ box = NewBox("boxOk", "1")
  /\ chat = NewChat

\* ------------------------------------------------------------------ Init
IdleCall ==
  [kind |-> "idle", pc |-> "idle", seq |-> 0,
   pyodide |-> 0, loadedPackages |-> {},
   code |-> "", name |-> "", stdoutContent |-> <<>>,
   err1 |-> NoError, err2 |-> NoError, thrown |-> NoError,
   outcome |-> "none", stdout |-> <<>>,
   evals |-> 0, installs |-> 0, installFailed |-> FALSE, stale |-> FALSE,
   ns1 |-> NoGlobals, ns2 |-> NoGlobals,
   solo |-> FALSE, afterFail |-> FALSE, ready |-> FALSE]

\* The state after the first render of the provider, before its effect runs.
Constructed ==
  /\ pyodide = 0
  /\ loading = TRUE
  /\ error = "null"
  /\ loadedPackages = {}
  /\ initPc = [i \in Insts |-> "unmounted"]
  /\ py = [i \in Insts |-> NoInst]
  /\ catcher = [k \in 1..MaxStarts |-> <<>>]
  /\ calls = [c \in Calls |-> IdleCall]
  /\ starts = 0
  /\ lastOutcome = "none"
  /\ ipDone = {}
  /\ consoleLog = 0
  /\ jsResult = NoJsResult

\* A production build: StrictMode does not repeat the effect.
Init == Constructed /\ strict = FALSE /\ AppMounted

\* ----------------------------------------------------------- initPyodide
\* The mount effect: initPyodide() is called once, or twice under StrictMode;
\* each run executes setLoading(true) and awaits loadPyodide().
Mount ==
  /\ UNCHANGED <<js, ui>>
  /\ initPc[1] = "unmounted"
  /\ initPc' = [i \in Insts |-> IF i = 1 \/ strict THEN "loadPyodide" ELSE "unmounted"]
  /\ loading' = TRUE
  /\ UNCHANGED <<pyodide, error, loadedPackages, strict, py, catcher, calls,
                 starts, lastOutcome, ipDone>>

\* The outer catch of initPyodide: setError(err); setLoading(false).
InitCatch(i) ==
  /\ error' = "set"
  /\ loading' = FALSE
  /\ initPc' = [initPc EXCEPT ![i] = "failed"]

LoadPyodideSettle(i, ok) ==
  /\ UNCHANGED <<js, ui>>
  /\ initPc[i] = "loadPyodide"
  /\ IF ok
       THEN /\ py' = [py EXCEPT ![i] = FreshInst]
            /\ initPc' = [initPc EXCEPT ![i] = "bootstrap"]
            /\ UNCHANGED <<error, loading>>
       ELSE /\ InitCatch(i)
            /\ UNCHANGED py
  /\ UNCHANGED <<pyodide, loadedPackages, strict, catcher, calls, starts,
                 lastOutcome, ipDone>>

\* runPythonAsync("import sys; import js; print(...)") on the new instance.
Bootstrap(i) ==
  /\ UNCHANGED <<js, ui>>
  /\ initPc[i] = "bootstrap"
  /\ py' = [py EXCEPT ![i].g = [n \in Names |->
                 IF n \in {"sys", "js"} THEN Engine ELSE py[i].g[n]]]
  /\ initPc' = [initPc EXCEPT ![i] = "micropip"]
  /\ UNCHANGED <<provider, strict, catcher, calls, starts, lastOutcome, ipDone>>

\* loadPackagesFromImports("import micropip"), then setPyodide(instance) and
\* the start of the pre-warm.
LoadMicropip(i, ok) ==
  /\ UNCHANGED <<js, ui>>
  /\ initPc[i] = "micropip"
  /\ IF ok
       THEN /\ py' = [py EXCEPT ![i].installed = @ \cup {"micropip"}]
            /\ pyodide' = i
            /\ initPc' = [initPc EXCEPT ![i] = "prewarm"]
            /\ UNCHANGED <<error, loading>>
       ELSE /\ InitCatch(i)
            /\ UNCHANGED <<py, pyodide>>
  /\ UNCHANGED <<loadedPackages, strict, catcher, calls, starts, lastOutcome,
                 ipDone>>

\* A preload that stores the common packages instead of adding them.
PreloadReplace(prevPackages) == COMMON_PACKAGES

\* setLoadedPackages((prevPackages) => new Set([...prevPackages, ...COMMON_PACKAGES]))
PreloadUpdate(prevPackages) == prevPackages \cup COMMON_PACKAGES

\* A preload failure treated like a failure to load the engine.
PreloadCatchFatal(err) == "set"

\* catch (packageErr) { console.warn(...) }: the error state stays as it is.
PreloadCatch(err) == err

\* loadPackagesFromImports("import numpy; import pandas"); a failure is
\* swallowed by the inner catch.  Then setLoading(false).
Prewarm(i, ok) ==
  /\ UNCHANGED <<js, ui>>
  /\ initPc[i] = "prewarm"
  /\ IF ok
       THEN /\ py' = [py EXCEPT ![i].installed = @ \cup COMMON_PACKAGES]
            /\ loadedPackages' = PreloadUpdate(loadedPackages)
            /\ initPc' = [initPc EXCEPT ![i] = "done"]
            /\ UNCHANGED error
       ELSE /\ error' = PreloadCatch(error)
            /\ initPc' = [initPc EXCEPT ![i] = "doneNoPreload"]
            /\ UNCHANGED <<py, loadedPackages>>
  /\ loading' = FALSE
  /\ UNCHANGED <<pyodide, strict, catcher, calls, starts, lastOutcome,
                 ipDone>>

\* ------------------------------------------------------------ call slots
InFlight(cr) == cr.kind # "idle" /\ cr.pc # "done"

IsRun(c) == calls[c].kind = "runPython"
Settled(c) == calls[c].pc = "done"

\* A new operation takes the lowest slot that holds no operation in flight.
FreeSlot(c) ==
  /\ ~InFlight(calls[c])
  /\ \A d \in Calls : d < c => InFlight(calls[d])

CanStart(c) ==
  /\ starts < MaxStarts
  /\ initPc[1] # "unmounted"
  /\ FreeSlot(c)

\* The record of an operation invoked now from the current render: it closes
\* over the pyodide and loadedPackages of that render.
NewCall(c, kind) ==
  [IdleCall EXCEPT
     !.kind = kind,
     !.seq = starts + 1,
     !.pyodide = pyodide,
     !.loadedPackages = loadedPackages,
     !.solo = \A d \in Calls : d # c => ~InFlight(calls[d]),
     !.afterFail = (lastOutcome = "throw"),
     !.ready = (pyodide # 0 /\ ~loading /\ error = "null")]

\* Placing the new operation: every other operation on record has now
\* overlapped with (or been followed by) another one.
Place(c, cr) ==
  [d \in Calls |->
     IF d = c THEN cr
     ELSE IF calls[d].kind = "idle" THEN calls[d]
     ELSE [calls[d] EXCEPT !.solo = FALSE]]

Return(cr, out) ==
  [cr EXCEPT !.pc = "done", !.outcome = "ok", !.stdout = out]

Throw(cr, err) ==
  [cr EXCEPT !.pc = "done", !.outcome = "throw", !.thrown = err]

\* --------------------------------------------------------- installPackage
\* A head that answers a call made without an interpreter as if the package
\* were loaded.
InstallPackageEntryLenient(p, lp, packageName) ==
  IF p = 0 \/ packageName \in lp THEN "return" ELSE "await"

\* The synchronous head of installPackage, on the closure of its render:
\* throw when pyodide is null, return when the name is in loadedPackages,
\* otherwise await micropip.install.
InstallPackageEntry(p, lp, packageName) ==
  IF p = 0 THEN "throw"
  ELSE IF packageName \in lp THEN "return"
  ELSE "await"

\* The installer code starts with `import micropip`, which binds the name.
InstallerStart(inst) == [inst EXCEPT !.g["micropip"] = Engine]

\* installPackage called by a consumer (the Install Package handler).
InstallPackageCall(c, packageName) ==
  /\ UNCHANGED js
  /\ CanStart(c)
  /\ LET cr == [NewCall(c, "installPackage") EXCEPT !.name = packageName]
         e == InstallPackageEntry(pyodide, loadedPackages, packageName)
     IN CASE e = "throw" ->
               /\ calls' = Place(c, Throw(cr, NotInitialized))
               /\ UNCHANGED <<py, ipDone>>
          [] e = "return" ->
               /\ calls' = Place(c, Return(cr, <<>>))
               /\ ipDone' = ipDone \cup {packageName}
               /\ UNCHANGED py
          [] e = "await" ->
               /\ calls' = Place(c, [cr EXCEPT !.pc = "installing",
                                               !.installs = 1,
                                               !.stale = packageName \in ipDone])
               /\ py' = [py EXCEPT ![pyodide] = InstallerStart(@)]
               /\ UNCHANGED ipDone
  /\ starts' = starts + 1
  /\ UNCHANGED <<provider, strict, initPc, catcher, lastOutcome>>

\* ------------------------------------------------------------- runPython
\* runPython called by a consumer: throws at once when the pyodide of its
\* render is null, otherwise awaits the capture set-up.
RunPythonCall(c, code) ==
  /\ UNCHANGED js
  /\ CanStart(c)
  /\ LET cr == [NewCall(c, "runPython") EXCEPT !.code = code]
     IN IF pyodide = 0
          THEN calls' = Place(c, Throw(cr, NotInitialized))
          ELSE calls' = Place(c, [cr EXCEPT !.pc = "setup"])
  /\ starts' = starts + 1
  /\ UNCHANGED <<provider, strict, initPc, py, catcher, lastOutcome, ipDone>>

\* A set-up that keeps a capture buffer already installed on sys.stdout.
SetupStdoutKeep(inst, seq) ==
  [inst EXCEPT !.g = [n \in Names |->
                        IF n \in {"sys", "io", "StdoutCatcher"} THEN Engine
                        ELSE inst.g[n]],
               !.stdout = IF inst.stdout # 0 THEN inst.stdout ELSE seq]

\* `import sys; import io; class StdoutCatcher...; sys.stdout = StdoutCatcher()`
\* The new catcher is identified by the start number of the call.
SetupStdout(inst, seq) ==
  [inst EXCEPT !.g = [n \in Names |->
                        IF n \in {"sys", "io", "StdoutCatcher"} THEN Engine
                        ELSE inst.g[n]],
               !.stdout = seq]

Setup(c) ==
  /\ UNCHANGED <<js, ui>>
  /\ calls[c].kind = "runPython" /\ calls[c].pc = "setup"
  /\ py' = [py EXCEPT ![calls[c].pyodide] = SetupStdout(@, calls[c].seq)]
  /\ calls' = [calls EXCEPT ![c].pc = "reset"]
  /\ UNCHANGED <<provider, strict, initPc, catcher, starts, lastOutcome, ipDone>>

\* `for key in list(globals().keys()): if key not in [...]: del globals()[key]`
ResetGlobals(g) == [n \in Names |-> IF n \in PRESERVED THEN g[n] ELSE Absent]

Reset(c) ==
  /\ UNCHANGED <<js, ui>>
  /\ calls[c].kind = "runPython" /\ calls[c].pc = "reset"
  /\ py' = [py EXCEPT ![calls[c].pyodide].g = ResetGlobals(@)]
  /\ calls' = [calls EXCEPT ![c].pc = "eval1"]
  /\ UNCHANGED <<provider, strict, initPc, catcher, starts, lastOutcome, ipDone>>

\* A test that sends every failure into the recovery.
IsMissingModuleAny(err) == err.kind # "none"

\* errorStr.includes("ModuleNotFoundError: No module named") and the regular
\* expression extracts a module name.
IsMissingModule(err) == err.kind = "ModuleNotFoundError" /\ err.m # ""

\* A recovery that re-enters the first evaluation after the install.
RetryPcFirst == "eval1"

\* Where the call continues after `await installPackage(moduleName)`: the
\* second runPythonAsync(code), inside the same try block.
RetryPc == "eval2"

\* First `await pyodide.runPythonAsync(code)` and what follows it up to the
\* next await.  Success: on to the read of the capture.  A module-not-found
\* error starts the recovery (status line, installPackage(moduleName) on the
\* closure of this call); any other error is rethrown.
Eval1(c) ==
  /\ UNCHANGED <<js, ui>>
  /\ calls[c].kind = "runPython" /\ calls[c].pc = "eval1"
  /\ LET p == calls[c].pyodide
         r == Exec(calls[c].code, calls[c].seq, py[p])
         cr == [calls[c] EXCEPT !.evals = @ + 1, !.ns1 = py[p].g, !.err1 = r.err]
         moduleName == r.err.m
         rec == [cr EXCEPT !.name = moduleName,
                           !.stdoutContent = Append(@, AttemptLine(moduleName))]
         e == InstallPackageEntry(p, cr.loadedPackages, moduleName)
         ran == [py EXCEPT ![p].g = r.g]
     IN /\ catcher' = WriteOut(py[p], catcher, r.out)
        /\ IF r.err = NoError
             THEN /\ calls' = [calls EXCEPT ![c] = [cr EXCEPT !.pc = "getvalue1"]]
                  /\ py' = ran
                  /\ UNCHANGED <<ipDone, lastOutcome>>
             ELSE IF IsMissingModule(r.err)
               THEN IF e = "return"
                      THEN /\ calls' = [calls EXCEPT ![c] = [rec EXCEPT !.pc = RetryPc]]
                           /\ ipDone' = ipDone \cup {moduleName}
                           /\ py' = ran
                           /\ UNCHANGED lastOutcome
                      ELSE /\ calls' = [calls EXCEPT ![c] =
                                          [rec EXCEPT !.pc = "installing",
                                                      !.installs = @ + 1,
                                                      !.stale = moduleName \in ipDone]]
                           /\ py' = [ran EXCEPT ![p] = InstallerStart(@)]
                           /\ UNCHANGED <<ipDone, lastOutcome>>
               ELSE /\ calls' = [calls EXCEPT ![c] = Throw(cr, r.err)]
                    /\ lastOutcome' = "throw"
                    /\ py' = ran
                    /\ UNCHANGED ipDone
  /\ UNCHANGED <<provider, strict, initPc, starts>>

\* `output = sys.stdout.getvalue(); sys.stdout = sys.__stdout__; output`
\* The original stream has no getvalue: the snippet raises AttributeError
\* before the assignment.
GetValueFails(inst) == inst.stdout = 0
GetValueText(inst, cat) == cat[inst.stdout]
GetValueEffect(inst) == [inst EXCEPT !.g["output"] = Engine, !.stdout = 0]

\* The success branch: read the capture, restore the stream, return.  An
\* error of the read lands in the catch of the first evaluation, is not a
\* module-not-found error, and is rethrown.
GetValue1(c) ==
  /\ UNCHANGED <<js, ui>>
  /\ calls[c].kind = "runPython" /\ calls[c].pc = "getvalue1"
  /\ LET p == calls[c].pyodide IN
       IF GetValueFails(py[p])
         THEN /\ calls' = [calls EXCEPT ![c] = Throw(@, AttributeError)]
              /\ lastOutcome' = "throw"
              /\ UNCHANGED py
         ELSE /\ calls' = [calls EXCEPT ![c] =
                             Return([@ EXCEPT !.stdoutContent = GetValueText(py[p], catcher)],
                                    GetValueText(py[p], catcher))]
              /\ lastOutcome' = "ok"
              /\ py' = [py EXCEPT ![p] = GetValueEffect(@)]
  /\ UNCHANGED <<provider, strict, initPc, catcher, starts, ipDone>>

\* A handler that rethrows what it caught.
CatchInstallErrRethrow(cr, installErr) == Throw(cr, installErr)

\* catch (installErr) { throw new Error(`Failed to install package
\* ${moduleName}: ${installErr}`) }: it encloses the install and the retry.
CatchInstallErr(cr, installErr) ==
  Throw(cr, [kind |-> "FailedInstall", m |-> cr.name,
             cause |-> installErr.kind, causeM |-> installErr.m])

\* An update that stores the new name alone.
InstallReplace(prevPackages, packageName) == {packageName}

\* setLoadedPackages((prevPackages) => new Set([...prevPackages, packageName]))
InstallUpdate(prevPackages, packageName) == prevPackages \cup {packageName}

\* A catch that throws an error of its own.
InstallPackageCatchWrap(err) == Err("Error", "")

\* catch (err) { console.error(...); throw err; } of installPackage.
InstallPackageCatch(err) == err

\* `await micropip.install(name)` settles, for either caller of
\* installPackage.  Success: setLoadedPackages(prev + name).  Failure:
\* installPackage rethrows the installer's error.
InstallerSettle(c, ok) ==
  /\ UNCHANGED <<js, ui>>
  /\ calls[c].pc = "installing"
  /\ LET cr == calls[c]
         p == cr.pyodide
     IN IF ok
          THEN /\ py' = [py EXCEPT ![p].installed = @ \cup Provides(cr.name)]
               /\ loadedPackages' = InstallUpdate(loadedPackages, cr.name)
               /\ ipDone' = ipDone \cup {cr.name}
               /\ IF cr.kind = "runPython"
                    THEN calls' = [calls EXCEPT ![c].pc = RetryPc]
                    ELSE calls' = [calls EXCEPT ![c] = Return(cr, <<>>)]
               /\ UNCHANGED lastOutcome
          ELSE /\ IF cr.kind = "runPython"
                    THEN /\ calls' = [calls EXCEPT ![c] =
                                CatchInstallErr([cr EXCEPT !.installFailed = TRUE],
                                                InstallPackageCatch(InstallerError))]
                         /\ lastOutcome' = "throw"
                    ELSE /\ calls' = [calls EXCEPT ![c] =
                                Throw([cr EXCEPT !.installFailed = TRUE],
                                      InstallPackageCatch(InstallerError))]
                         /\ UNCHANGED lastOutcome
               /\ UNCHANGED <<py, loadedPackages, ipDone>>
  /\ UNCHANGED <<pyodide, loading, error, strict, initPc, catcher, starts>>

\* After `await installPackage(moduleName)`: the second status line and the
\* second `await pyodide.runPythonAsync(code)`.
Eval2(c) ==
  /\ UNCHANGED <<js, ui>>
  /\ calls[c].kind = "runPython" /\ calls[c].pc = "eval2"
  /\ LET cr == calls[c]
         p == cr.pyodide
         r == Exec(cr.code, cr.seq, py[p])
         rec == [cr EXCEPT !.stdoutContent = Append(@, InstalledLine(cr.name)),
                           !.evals = @ + 1,
                           !.ns2 = py[p].g,
                           !.err2 = r.err]
     IN /\ py' = [py EXCEPT ![p].g = r.g]
        /\ catcher' = WriteOut(py[p], catcher, r.out)
        /\ IF r.err = NoError
             THEN /\ calls' = [calls EXCEPT ![c] = [rec EXCEPT !.pc = "getvalue2"]]
                  /\ UNCHANGED lastOutcome
             ELSE /\ calls' = [calls EXCEPT ![c] = CatchInstallErr(rec, r.err)]
                  /\ lastOutcome' = "throw"
  /\ UNCHANGED <<provider, strict, initPc, starts, ipDone>>

\* A return value with the two parts in the other order.
RecoveredStdoutSwapped(stdoutContent, newStdout) == newStdout \o stdoutContent

\* stdout: stdoutContent + newStdout
RecoveredStdout(stdoutContent, newStdout) == stdoutContent \o newStdout

\* The read of the capture after the retry; returns stdoutContent + newStdout.
GetValue2(c) ==
  /\ UNCHANGED <<js, ui>>
  /\ calls[c].kind = "runPython" /\ calls[c].pc = "getvalue2"
  /\ LET cr == calls[c]
         p == cr.pyodide
     IN IF GetValueFails(py[p])
          THEN /\ calls' = [calls EXCEPT ![c] = CatchInstallErr(cr, AttributeError)]
               /\ lastOutcome' = "throw"
               /\ UNCHANGED py
          ELSE /\ calls' = [calls EXCEPT ![c] =
                              Return(cr, RecoveredStdout(cr.stdoutContent,
                                                         GetValueText(py[p], catcher)))]
               /\ lastOutcome' = "ok"
               /\ py' = [py EXCEPT ![p] = GetValueEffect(@)]
  /\ UNCHANGED <<provider, strict, initPc, catcher, starts, ipDone>>

\* --------------------------------------------------------- runJavaScript
\* `new Function(...)` compiles the wrapper text with the code spliced in; a
\* text that does not parse makes the constructor throw a SyntaxError.
JsParses(code) == code # "syntax"

\* The body built by new Function, run on console.log with `depth` wrappers
\* installed: it installs its own wrapper, runs the code, and restores
\* console.log only when the code did not throw.  The inner catch returns
\* { error: error.toString() }, which itself throws when error is null.
\* Result: the wrappers left installed, and either the returned object or
\* the exception that escaped the body.
JsBody(code, depth) ==
  CASE code = "log" ->
         [depth |-> depth, escaped |-> "",
          ret |-> [hasError |-> FALSE, error |-> "", stdout |-> <<"a">>]]
    [] code = "throw" ->
         [depth |-> depth + 1, escaped |-> "",
          ret |-> [hasError |-> TRUE, error |-> "Error", stdout |-> <<>>]]
    [] code = "throwNull" ->
         [depth |-> depth + 1, escaped |-> "TypeError",
          ret |-> [hasError |-> FALSE, error |-> "", stdout |-> <<>>]]

\* An outer handler that lets the exception through.
JsOuterCatchRethrow(err) ==
  [called |-> TRUE, threw |-> TRUE, hasError |-> FALSE, error |-> "",
   stdout |-> <<>>, failed |-> TRUE]

\* catch (err) { console.error(...); return { error: ... } }
JsOuterCatch(err) ==
  [called |-> TRUE, threw |-> FALSE, hasError |-> TRUE, error |-> err,
   stdout |-> <<>>, failed |-> TRUE]

\* runJavaScript is synchronous: one step from call to return.
RunJavaScript(code) ==
  /\ starts < MaxStarts
  /\ initPc[1] # "unmounted"
  /\ starts' = starts + 1
  /\ IF ~JsParses(code)
       THEN /\ jsResult' = JsOuterCatch("SyntaxError")
            /\ UNCHANGED consoleLog
       ELSE LET b == JsBody(code, consoleLog) IN
            /\ consoleLog' = b.depth
            /\ jsResult' = IF b.escaped # ""
                              THEN JsOuterCatch(b.escaped)
                              ELSE [called |-> TRUE, threw |-> FALSE,
                                    hasError |-> b.ret.hasError,
                                    error |-> b.ret.error,
                                    stdout |-> b.ret.stdout,
                                    failed |-> code # "log"]
  /\ UNCHANGED <<provider, strict, initPc, py, catcher, calls, lastOutcome, ipDone>>

\* ------------------------------------------------------------- CodeEditor
Languages == {"python", "javascript"}

\* Texts the user types into the editor, and example files the parent loads.
EditorTexts == {"", "u"}
ExampleTexts == {"example1", "example2"}

\* useEffect(..., [initialCode]): if (initialCode) setCode(initialCode)
InitialCodeEffect(ed) ==
  IF Truthy(ed.initialCode) THEN [ed EXCEPT !.code = ed.initialCode] ELSE ed

\* useEffect(..., [language, defaultValue, initialCode]): without initialCode,
\* setCode(defaultValue) if defaultValue is truthy, else the template of the
\* language.
LanguageEffect(ed) ==
  IF Truthy(ed.initialCode) THEN ed
  ELSE IF Truthy(ed.defaultValue)
    THEN [ed EXCEPT !.code = ed.defaultValue]
    ELSE [ed EXCEPT !.code = Template(ed.language)]

\* handleEditorChange: setCode(value || ""); the editor is shown outside the
\* diff mode.
HandleEditorChange(value) ==
  /\ ~editor.isDiffMode
  /\ editor' = [editor EXCEPT !.code = value]
  /\ UNCHANGED <<session, js, box, chat>>

\* handleLanguageChange: setLanguage(value), then the effect that depends on
\* language runs.  The selector is disabled in the diff mode.
HandleLanguageChange(value) ==
  /\ ~editor.isDiffMode
  /\ value # editor.language
  /\ editor' = LanguageEffect([editor EXCEPT !.language = value])
  /\ UNCHANGED <<session, js, box, chat>>

\* The parent passes a new initialCode (an example it has loaded): both
\* effects depend on it and run in their order.
SetInitialCode(text) ==
  /\ text # editor.initialCode
  /\ editor' = LanguageEffect(InitialCodeEffect([editor EXCEPT !.initialCode = text]))
  /\ UNCHANGED <<session, js, box, chat>>

\* toggleDiffMode: entering the diff mode stores an original text of the
\* language and the current code as the modified text.
ToggleDiffMode ==
  /\ editor' = IF editor.isDiffMode
                 THEN [editor EXCEPT !.isDiffMode = FALSE]
                 ELSE [editor EXCEPT !.isDiffMode = TRUE,
                                     !.originalCode = <<"original", editor.language>>,
                                     !.modifiedCode = editor.code]
  /\ UNCHANGED <<session, js, box, chat>>

\* --------------------------------------------------- running from the UI
\* The start numbers of the calls whose settling a handler is awaiting.
Awaited == {editor.run, editor.inst, box.run} \ {0}

\* The continuation of a handler runs as soon as the call it awaits has
\* settled, before any later event is handled.
NoContinuationDue ==
  \A c \in Calls : Settled(c) => calls[c].seq \notin Awaited

CallOf(seq) == CHOOSE c \in Calls : calls[c].seq = seq

\* A button that is enabled while a run is in progress.
RunDisabledNoFlag(ed) == loading \/ ed.isDiffMode

\* disabled={loading || isExecuting || isDiffMode} of the Run button
RunDisabled(ed) == loading \/ ed.isExecuting \/ ed.isDiffMode

\* A finally block that leaves the flag as it is.
ExecuteFinallySkipped(isExecuting) == isExecuting

\* finally { setIsExecuting(false) } of executeCode and executeFunction
ExecuteFinally(isExecuting) == FALSE

\* executeCode for Python, up to `await runPython(code)`.
ExecuteCodePython(c) ==
  /\ NoContinuationDue
  /\ ~RunDisabled(editor)
  /\ ~(loading \/ Trim(editor.code) = "")
  /\ editor.language = "python"
  /\ RunPythonCall(c, editor.code)
  /\ editor' = [editor EXCEPT !.isExecuting = TRUE,
                              !.output = Shown("Executing...", <<>>),
                              !.run = starts + 1]
  /\ UNCHANGED <<box, chat>>

\* The rest of executeCode once runPython has settled: the output, or the
\* error of the catch, then finally.
ExecuteCodeSettle ==
  /\ editor.run \in {calls[c].seq : c \in {d \in Calls : Settled(d)}}
  /\ LET cr == calls[CallOf(editor.run)] IN
     editor' = [editor EXCEPT
                  !.output = IF cr.outcome = "ok" THEN Shown("output", cr.stdout)
                             ELSE Shown("Error", <<cr.thrown.kind>>),
                  !.isExecuting = ExecuteFinally(@),
                  !.run = 0]
  /\ UNCHANGED <<session, js, box, chat>>

\* executeCode for JavaScript: runJavaScript is synchronous, the handler
\* runs to its end in one step.
ExecuteCodeJavaScript ==
  /\ NoContinuationDue
  /\ ~RunDisabled(editor)
  /\ ~(loading \/ Trim(editor.code) = "")
  /\ editor.language = "javascript"
  /\ RunJavaScript(editor.code)
  /\ editor' = [editor EXCEPT
                  !.output = IF jsResult'.threw \/ jsResult'.hasError
                               THEN Shown("Error", <<jsResult'.error>>)
                               ELSE Shown("output", jsResult'.stdout),
                  !.isExecuting = ExecuteFinally(TRUE)]
  /\ UNCHANGED <<box, chat>>

\* The package bar is rendered for Python outside the diff mode; its input
\* and its button are disabled while loading or installing.
PackageBarEnabled(ed) ==
  /\ ed.language = "python" /\ ~ed.isDiffMode
  /\ ~(loading \/ ed.isInstallingPackage)

HandlePackageNameChange(value) ==
  /\ NoContinuationDue
  /\ PackageBarEnabled(editor)
  /\ value # editor.packageName
  /\ editor' = [editor EXCEPT !.packageName = value]
  /\ UNCHANGED <<session, js, box, chat>>

\* handleInstallPackage up to `await installPackage(packageName)`.
HandleInstallPackage(c) ==
  /\ NoContinuationDue
  /\ PackageBarEnabled(editor)
  /\ ~(Trim(editor.packageName) = "" \/ loading \/ editor.isInstallingPackage)
  /\ InstallPackageCall(c, editor.packageName)
  /\ editor' = [editor EXCEPT !.isInstallingPackage = TRUE,
                              !.output = Shown("Installing package", <<>>),
                              !.inst = starts + 1]
  /\ UNCHANGED <<box, chat>>

\* The rest of handleInstallPackage once installPackage has settled.
HandleInstallSettle ==
  /\ editor.inst \in {calls[c].seq : c \in {d \in Calls : Settled(d)}}
  /\ LET cr == calls[CallOf(editor.inst)] IN
     editor' = [editor EXCEPT
                  !.output = IF cr.outcome = "ok" THEN Shown("installed", <<>>)
                             ELSE Shown("Error installing package", <<cr.thrown.kind>>),
                  !.packageName = IF cr.outcome = "ok" THEN "" ELSE @,
                  !.isInstallingPackage = FALSE,
                  !.inst = 0]
  /\ UNCHANGED <<session, js, box, chat>>

\* ------------------------------------------------------------ FunctionBox
\* Texts of a box: one of BoxCodes, or a text without a `def name(`.
BoxTexts == BoxCodes \cup {"boxNoDef"}

\* Values of the number parameter of the box: "" is the cleared field.
BoxParameters == {"1", ""}

\* code.match(/def\s+([a-zA-Z0-9_]+)\s*\(/) finds no name, or a number
\* parameter is "": executeFunction throws before it calls runPython.
BoxRejects(b) == b.code = "boxNoDef" \/ b.parameters = ""

\* result.stdout.trim().startsWith("Error:")
StartsWithError(stdout) == Len(stdout) > 0 /\ stdout[1].v = "Error:"

\* executeFunction when the name or a parameter is rejected: the throw is
\* caught, the error is shown, finally clears the flag; no call is made.
ExecuteFunctionRejected ==
  /\ NoContinuationDue
  /\ ~(loading \/ box.isExecuting)
  /\ BoxRejects(box)
  /\ box' = [box EXCEPT !.output = Shown("Error", <<>>),
                        !.isExecuting = ExecuteFinally(TRUE)]
  /\ UNCHANGED <<session, js, editor, chat>>

\* executeFunction up to `await runPython(executionCode)`.
ExecuteFunction(c) ==
  /\ NoContinuationDue
  /\ ~(loading \/ box.isExecuting)
  /\ ~BoxRejects(box)
  /\ RunPythonCall(c, box.code)
  /\ box' = [box EXCEPT !.isExecuting = TRUE,
                        !.output = Shown("Executing...", <<>>),
                        !.run = starts + 1]
  /\ UNCHANGED <<editor, chat>>

\* The rest of executeFunction once runPython has settled: the early return
\* for an output that starts with "Error:", the formatted output, or the
\* catch; finally clears the flag on each path.
ExecuteFunctionSettle ==
  /\ box.run \in {calls[c].seq : c \in {d \in Calls : Settled(d)}}
  /\ LET cr == calls[CallOf(box.run)] IN
     box' = [box EXCEPT
               !.output = IF cr.outcome # "ok" THEN Shown("Error", <<cr.thrown.kind>>)
                          ELSE IF StartsWithError(cr.stdout)
                            THEN Shown("stdout", cr.stdout)
                            ELSE Shown("output", cr.stdout),
               !.isExecuting = ExecuteFinally(@),
               !.run = 0]
  /\ UNCHANGED <<session, js, editor, chat>>

\* ---------------------------------------------------------------- ChatBox
MaxSubmits == 3    \* requests the user submits in one behaviour

\* Texts typed into the input, and replies of the AI service.
ChatInputs == {"", " ", "q"}
Replies == {"r", "..."}

\* A message; its id is Date.now(), prefixed with "loading-" for the
\* placeholder.
Message(idLoading, t, role, content) ==
  [loading |-> idLoading, t |-> t, role |-> role, content |-> content]

\* onChange of the input, which is disabled while isLoading.
SetInput(value) ==
  /\ ~chat.isLoading
  /\ chat' = [chat EXCEPT !.input = value]
  /\ UNCHANGED <<session, js, editor, box>>

\* handleSubmit up to `await aiService.generateResponse(...)`: returns at once
\* on an empty input or while isLoading; otherwise appends the user message
\* and the "..." placeholder and sends the request.
HandleSubmit ==
  /\ chat.sent < MaxSubmits
  /\ ~(Trim(chat.input) = "" \/ chat.isLoading)
  /\ LET t == chat.sent + 1 IN
     chat' = [chat EXCEPT
                !.messages = @ \o <<Message(FALSE, t, "user", chat.input),
                                    Message(TRUE, t, "assistant", "...")>>,
                !.input = "",
                !.isLoading = TRUE,
                !.error = "null",
                !.pending = @ \cup {t},
                !.sent = t]
  /\ UNCHANGED <<session, js, editor, box>>

\* prev.filter((msg) => msg.id !== loadingId).concat({... result.response})
ChatReplaceLoading(prev, loadingId, response) ==
  SelectSeq(prev, LAMBDA msg : ~(msg.loading /\ msg.t = loadingId))
    \o <<Message(FALSE, loadingId, "assistant", response)>>

\* A handler that leaves the messages as they are.
ChatKeepLoading(prev) == prev

\* prev.filter((msg) => !msg.id.startsWith("loading-"))
ChatRemoveLoading(prev) == SelectSeq(prev, LAMBDA msg : ~msg.loading)

\* The request resolves: the placeholder is replaced; finally
\* setIsLoading(false).
ResponseArrives(loadingId, response) ==
  /\ loadingId \in chat.pending
  /\ chat' = [chat EXCEPT
                !.messages = ChatReplaceLoading(@, loadingId, response),
                !.isLoading = FALSE,
                !.pending = @ \ {loadingId}]
  /\ UNCHANGED <<session, js, editor, box>>

\* The request rejects: setError, every placeholder is removed; finally
\* setIsLoading(false).
RequestFails(loadingId) ==
  /\ loadingId \in chat.pending
  /\ chat' = [chat EXCEPT
                !.messages = ChatRemoveLoading(@),
                !.error = "set",
                !.isLoading = FALSE,
                !.pending = @ \ {loadingId}]
  /\ UNCHANGED <<session, js, editor, box>>

\* onClick of Clear Chat: setMessages([]).
ClearChat ==
  /\ chat' = [chat EXCEPT !.messages = <<>>]
  /\ UNCHANGED <<session, js, editor, box>>

\* ------------------------------------------------------ any consumer
\* The operations of the context value called by an arbitrary consumer of
\* the provider.
ConsumerRunPython(c, code) == RunPythonCall(c, code) /\ UNCHANGED ui
ConsumerInstallPackage(c, packageName) ==
  InstallPackageCall(c, packageName) /\ UNCHANGED ui
ConsumerRunJavaScript(code) == RunJavaScript(code) /\ UNCHANGED ui

\* ------------------------------------------------------------------ Next
Next ==
  \/ Mount
  \/ \E i \in Insts, ok \in BOOLEAN : LoadPyodideSettle(i, ok)
  \/ \E i \in Insts : Bootstrap(i)
  \/ \E i \in Insts, ok \in BOOLEAN : LoadMicropip(i, ok)
  \/ \E i \in Insts, ok \in BOOLEAN : Prewarm(i, ok)
  \/ \E c \in Calls, code \in Codes : ConsumerRunPython(c, code)
  \/ \E c \in Calls, packageName \in Packages : ConsumerInstallPackage(c, packageName)
  \/ \E c \in Calls : Setup(c)
  \/ \E c \in Calls : Reset(c)
  \/ \E c \in Calls : Eval1(c)
  \/ \E c \in Calls : GetValue1(c)
  \/ \E c \in Calls, ok \in BOOLEAN : InstallerSettle(c, ok)
  \/ \E c \in Calls : Eval2(c)
  \/ \E c \in Calls : GetValue2(c)
  \/ \E code \in JsCodes : ConsumerRunJavaScript(code)

Spec == Init /\ [][Next]_vars

\* The development build mounted by main.tsx: StrictMode runs the effect of
\* the provider twice.
InitStrict == Constructed /\ strict = TRUE /\ AppMounted

SpecStrict == InitStrict /\ [][Next]_vars

\* The ChatBox component on its own: the user, the AI service and the
\* Clear Chat button.
NextChat ==
  \/ \E value \in ChatInputs : SetInput(value)
  \/ HandleSubmit
  \/ \E t \in 1..MaxSubmits, response \in Replies : ResponseArrives(t, response)
  \/ \E t \in 1..MaxSubmits : RequestFails(t)
  \/ ClearChat

SpecChat == Init /\ [][NextChat]_vars

\* The CodeEditor component on its own, for every combination of its props:
\* typing, switching the language, examples loaded by the parent, diff mode.
InitEditor ==
  /\ Constructed
  /\ strict = FALSE
  /\ editor \in {NewEditor(l, v, i) : l \in Languages,
                                      v \in {Undefined, "", "custom"},
                                      i \in {Undefined} \cup ExampleTexts}
  /\ box = NewBox("boxOk", "1")
  /\ chat = NewChat

NextEditor ==
  \/ \E value \in EditorTexts : HandleEditorChange(value)
  \/ \E value \in Languages : HandleLanguageChange(value)
  \/ \E text \in ExampleTexts : SetInitialCode(text)
  \/ ToggleDiffMode

SpecEditor == InitEditor /\ [][NextEditor]_vars

\* The provider with a CodeEditor and a FunctionBox as its only consumers:
\* every call is started by a handler of a component.  The initial states
\* cover the texts in the editor and in the box.
EditorPrograms == {"imp1", "div0", " "}
EditorScripts == {"throw"}

InitUI ==
  /\ Constructed
  /\ strict = FALSE
  /\ editor \in {NewEditor("python", v, Undefined) : v \in EditorPrograms}
                  \cup {NewEditor("javascript", v, Undefined) : v \in EditorScripts}
  /\ box \in {NewBox(code, v) : code \in BoxTexts, v \in BoxParameters}
  /\ chat = NewChat

NextUI ==
  \/ Mount
  \/ \E i \in Insts, ok \in BOOLEAN : LoadPyodideSettle(i, ok)
  \/ \E i \in Insts : Bootstrap(i)
  \/ \E i \in Insts, ok \in BOOLEAN : LoadMicropip(i, ok)
  \/ \E i \in Insts, ok \in BOOLEAN : Prewarm(i, ok)
  \/ \E c \in Calls : Setup(c)
  \/ \E c \in Calls : Reset(c)
  \/ \E c \in Calls : Eval1(c)
  \/ \E c \in Calls : GetValue1(c)
  \/ \E c \in Calls, ok \in BOOLEAN : InstallerSettle(c, ok)
  \/ \E c \in Calls : Eval2(c)
  \/ \E c \in Calls : GetValue2(c)
  \/ \E c \in Calls : ExecuteCodePython(c)
  \/ ExecuteCodeSettle
  \/ ExecuteCodeJavaScript
  \/ \E value \in Packages : HandlePackageNameChange(value)
  \/ \E c \in Calls : HandleInstallPackage(c)
  \/ HandleInstallSettle
  \/ ExecuteFunctionRejected
  \/ \E c \in Calls : ExecuteFunction(c)
  \/ ExecuteFunctionSettle

SpecUI == InitUI /\ [][NextUI]_vars

\* The event loop runs the continuation of a handler whose awaited call has
\* settled.
SpecUIFair ==
  SpecUI /\ WF_vars(ExecuteCodeSettle) /\ WF_vars(ExecuteFunctionSettle)

\* ---------------------------------------------------------------- claims

\* C1: whenever a runPython call has returned or thrown, sys.stdout of its
\* interpreter is the original stream again (checked for calls made on a
\* Ready session that no other operation overlapped or followed).
StdoutRestoredOnExit ==
  \A c \in Calls :
    (IsRun(c) /\ Settled(c) /\ calls[c].ready /\ calls[c].solo)
      => py[calls[c].pyodide].stdout = 0

\* C2: no two runPython calls are in flight on the same interpreter, and the
\* stdout a call returns holds only text its own code wrote.
OneExecutionAtATime ==
  /\ \A c, d \in Calls :
       (c # d /\ IsRun(c) /\ IsRun(d) /\ InFlight(calls[c]) /\ InFlight(calls[d]))
         => calls[c].pyodide # calls[d].pyodide
  /\ \A c \in Calls :
       (IsRun(c) /\ Settled(c) /\ calls[c].outcome = "ok")
         => \A i \in 1..Len(calls[c].stdout) :
              calls[c].stdout[i].k = "out" => calls[c].stdout[i].who = calls[c].seq

\* C3: within one runPython call the installer is invoked at most once and
\* the user code is evaluated at most twice.
RecoveryBounded ==
  \A c \in Calls : IsRun(c) => calls[c].installs <= 1 /\ calls[c].evals <= 2

\* A call whose retry failed on a module other than the one it installed.
RetryMissedOtherModule ==
  \E c \in Calls :
    /\ IsRun(c) /\ Settled(c)
    /\ calls[c].installs = 1 /\ calls[c].evals = 2
    /\ IsMissingModule(calls[c].err2)
    /\ calls[c].err2.m # calls[c].err1.m

\* C4: when the first evaluation misses module M and the installer fails,
\* the call ends by raising an error that names M, after exactly one install
\* attempt and a single evaluation.
InstallFailureNamesModule ==
  \A c \in Calls :
    (IsRun(c) /\ calls[c].installFailed)
      => /\ Settled(c) /\ calls[c].outcome = "throw"
         /\ IsMissingModule(calls[c].err1)
         /\ calls[c].thrown.kind = "FailedInstall"
         /\ calls[c].thrown.m = calls[c].err1.m
         /\ calls[c].installs = 1
         /\ calls[c].evals = 1

InstallFailedInRecovery ==
  \E c \in Calls : IsRun(c) /\ calls[c].installFailed /\ Settled(c)

\* C5: a runPython call made while the session is not Ready (pyodide null,
\* loading true, or error set) throws the not-initialized error and
\* evaluates nothing.
NotReadyRejected ==
  \A c \in Calls :
    (IsRun(c) /\ ~calls[c].ready)
      => /\ Settled(c)
         /\ calls[c].thrown = NotInitialized
         /\ calls[c].evals = 0

\* C6: when the code of a call that follows earlier calls starts running, the
\* namespace holds no binding made by the user code of an earlier call.
NamespaceIsolated ==
  \A c \in Calls :
    (IsRun(c) /\ calls[c].evals >= 1 /\ calls[c].ready /\ calls[c].solo)
      => \A n \in Names : calls[c].ns1[n] \in {Absent, Engine}

\* C7: in the recovery path the second evaluation sees no binding made by
\* the failed first evaluation of the same call.
RetryFromCleanNamespace ==
  \A c \in Calls :
    (IsRun(c) /\ calls[c].evals = 2 /\ calls[c].ready)
      => \A n \in Names : calls[c].ns2[n] # calls[c].seq

\* C8: when the install succeeded and the re-evaluation failed, the error
\* the call throws is the error of the second evaluation itself.
RetryFailureSurfaced ==
  \A c \in Calls :
    (IsRun(c) /\ Settled(c) /\ calls[c].ready
       /\ calls[c].evals = 2 /\ calls[c].err2 # NoError)
      => calls[c].thrown = calls[c].err2

\* Code that cannot fail: prints and assignments only.
PureCode(code) ==
  \A i \in 1..Len(Prog(code)) : Prog(code)[i].op \in {"print", "bind"}

\* The text a program prints, in program order, as written by call seq.
OwnOutput(code, seq) ==
  LET ps == SelectSeq(Prog(code), LAMBDA st : st.op = "print")
  IN [i \in 1..Len(ps) |-> Out(seq, ps[i].arg)]

NextAfterFailure(c) ==
  /\ IsRun(c) /\ Settled(c)
  /\ calls[c].pyodide # 0
  /\ calls[c].afterFail /\ calls[c].solo
  /\ PureCode(calls[c].code)

\* C9: the steps of a runPython call, failing ones included, leave pyodide,
\* loading and error as they are; and a call of non-failing code that follows
\* a failed call returns, with exactly the text its own code printed.
FailureLeavesSessionUsable ==
  /\ [](\A c \in Calls :
          NextAfterFailure(c)
            => /\ calls[c].outcome = "ok"
               /\ calls[c].stdout = OwnOutput(calls[c].code, calls[c].seq))
  /\ [][\A c \in Calls :
          (IsRun(c) /\ calls'[c] # calls[c] /\ calls'[c].seq = calls[c].seq)
            => UNCHANGED <<pyodide, loading, error>>]_vars

SucceededAfterFailure ==
  \E c \in Calls : NextAfterFailure(c) /\ Len(calls[c].stdout) = 2

\* C10: once an installPackage(name) call has completed successfully, no
\* later installPackage(name) call invokes the installer.
InstallIdempotent ==
  \A c \in Calls : ~calls[c].stale

\* C11: when the installer fails inside installPackage, the caller of
\* installPackage gets the installer's error unchanged, the installer was
\* invoked once, and the failing step leaves loadedPackages as it was.
InstallFailureSurfaced ==
  /\ [](\A c \in Calls :
          calls[c].installFailed
            => /\ Settled(c)
               /\ calls[c].installs = 1
               /\ calls[c].kind = "installPackage"
                    => calls[c].thrown = InstallerError
               /\ IsRun(c)
                    => /\ calls[c].thrown.cause = InstallerError.kind
                       /\ calls[c].thrown.causeM = InstallerError.m)
  /\ [][\A c \in Calls :
          (~calls[c].installFailed /\ calls'[c].installFailed)
            => loadedPackages' = loadedPackages]_vars

DirectInstallFailed ==
  \E c \in Calls :
    calls[c].kind = "installPackage" /\ calls[c].installFailed /\ Settled(c)

\* C12: loadedPackages only grows: no step removes a name from it.
LoadedPackagesGrows ==
  [][loadedPackages \subseteq loadedPackages']_vars

PreloadedAndInstalled ==
  /\ COMMON_PACKAGES \subseteq loadedPackages
  /\ \E c \in Calls :
       /\ calls[c].kind = "installPackage" /\ calls[c].outcome = "ok"
       /\ calls[c].installs = 1
       /\ calls[c].name \in loadedPackages

\* The step in which the installer of call c settles.
InstallerSettles(c) ==
  calls[c].pc = "installing" /\ calls'[c].pc # "installing"

\* C13 as stated: loadedPackages is changed only by installPackage (called
\* directly or from the recovery); initialization leaves it unchanged.
LoadedPackagesOnlyByInstall ==
  [][loadedPackages' # loadedPackages => \E c \in Calls : InstallerSettles(c)]_vars

\* C13 amended: loadedPackages is changed only by installPackage, which adds
\* the installed name, and by the pre-warm step of initialization, which
\* adds the common packages.
LoadedPackagesWriters ==
  [][loadedPackages' # loadedPackages
       => \/ \E c \in Calls :
               /\ InstallerSettles(c)
               /\ loadedPackages' = loadedPackages \cup {calls[c].name}
          \/ \E i \in Insts :
               /\ initPc[i] = "prewarm" /\ initPc'[i] = "done"
               /\ loadedPackages' = loadedPackages \cup COMMON_PACKAGES]_vars

PreloadedAndRecovered ==
  /\ COMMON_PACKAGES \subseteq loadedPackages
  /\ \E c \in Calls :
       IsRun(c) /\ calls[c].installs = 1 /\ calls[c].evals = 2
         /\ calls[c].name \in loadedPackages

\* C14: initialization runs at most once per session: no second initPyodide
\* is started, also under the StrictMode mount.
SingleInitialization ==
  Cardinality({i \in Insts : initPc[i] # "unmounted"}) <= 1

\* C15: the step in which the pre-warm fails sets loading to false with
\* pyodide set, leaves error and loadedPackages as they are, and so makes the
\* session Ready (error was null) without adding the common packages.
PreloadFailureNonFatal ==
  [][\A i \in Insts :
       (initPc[i] = "prewarm" /\ initPc'[i] = "doneNoPreload")
         => /\ pyodide' # 0
            /\ loading' = FALSE
            /\ error' = error
            /\ error = "null" => (pyodide' # 0 /\ ~loading' /\ error' = "null")
            /\ loadedPackages' = loadedPackages]_vars

PreloadFailed == initPc[1] = "doneNoPreload"

\* C16: once loading is false the session is either Ready (pyodide set,
\* error null) or Failed (pyodide null, error set), never a mix of the two.
InitOutcomeExclusive ==
  ~loading => \/ (pyodide # 0 /\ error = "null")
              \/ (pyodide = 0 /\ error = "set")

\* C17: when the evaluation fails with an error that is not a recoverable
\* module-not-found, the caller receives the text the code had printed
\* before failing along with the error.
PartialOutputKept ==
  \A c \in Calls :
    (IsRun(c) /\ Settled(c) /\ calls[c].ready /\ calls[c].solo
       /\ calls[c].outcome = "throw" /\ calls[c].evals = 1
       /\ calls[c].err1 # NoError /\ ~IsMissingModule(calls[c].err1))
      => calls[c].stdout = catcher[calls[c].seq]

ConsoleLogRestored == consoleLog = 0

\* The text the first evaluation printed before it missed module m.
RECURSIVE PrintedBefore(_, _, _, _)
PrintedBefore(prog, i, m, seq) ==
  IF i > Len(prog) \/ prog[i] = ImportStmt(m) THEN <<>>
  ELSE IF prog[i].op = "print"
    THEN <<Out(seq, prog[i].arg)>> \o PrintedBefore(prog, i + 1, m, seq)
    ELSE PrintedBefore(prog, i + 1, m, seq)

Recovered(c) ==
  IsRun(c) /\ Settled(c) /\ calls[c].outcome = "ok" /\ calls[c].evals = 2

\* C20: in the stdout of a recovered call the two status lines come first,
\* everything after them is text printed by user code, and for a call that
\* ran alone that text is in the order the code emitted it.
RecoveredOutputOrdered ==
  \A c \in Calls :
    Recovered(c)
      => LET out == calls[c].stdout
             rest == SubSeq(out, 3, Len(out))
         IN /\ Len(out) >= 2
            /\ out[1] = AttemptLine(calls[c].name)
            /\ out[2] = InstalledLine(calls[c].name)
            /\ \A i \in 1..Len(rest) : rest[i].k = "out"
            /\ calls[c].solo
                 => rest = PrintedBefore(Prog(calls[c].code), 1, calls[c].name,
                                         calls[c].seq)
                             \o OwnOutput(calls[c].code, calls[c].seq)

RecoveredAlone ==
  \E c \in Calls : Recovered(c) /\ calls[c].solo /\ Len(calls[c].stdout) = 5

\* C21: the stdout of a recovered call is the text the first evaluation
\* printed before it failed, once, then the two status lines, then the
\* output of the retry.
FirstOutputBeforeStatus ==
  \A c \in Calls :
    (Recovered(c) /\ calls[c].ready /\ calls[c].solo)
      => calls[c].stdout =
           PrintedBefore(Prog(calls[c].code), 1, calls[c].name, calls[c].seq)
             \o <<AttemptLine(calls[c].name), InstalledLine(calls[c].name)>>
             \o OwnOutput(calls[c].code, calls[c].seq)

\* The first evaluation of call c failed with a module-not-found error that
\* names a module.
MissedModule(c) ==
  calls[c].err1.kind = "ModuleNotFoundError" /\ calls[c].err1.m # ""

RecoveryInstalled(c) ==
  /\ IsRun(c)
  /\ calls[c].installs = 1 /\ ~calls[c].installFailed
  /\ calls[c].pc \in {"eval2", "getvalue2", "done"}

\* C23: once the recovery of a runPython call has installed module M, M is in
\* loadedPackages and no installPackage(M) made afterwards, by a consumer or
\* by the recovery of another call, invokes the installer.
RecoveryInstallCached ==
  \A c \in Calls :
    (RecoveryInstalled(c) /\ calls[c].ready)
      => /\ calls[c].name \in loadedPackages
         /\ \A d \in Calls :
              (d # c /\ calls[d].ready /\ calls[d].name = calls[c].name
                 /\ calls[d].seq > calls[c].seq)
                => ~calls[d].stale

\* The modules the packages named in loadedPackages ship.
LoadedModules == UNION {Provides(n) : n \in loadedPackages}

\* C25: every package named in loadedPackages is installed in the interpreter
\* instance the session holds.
LoadedPackagesInstalled ==
  pyodide # 0 => LoadedModules \subseteq py[pyodide].installed

\* A call of installPackage made from a render whose pyodide is null.
InstallWithoutInterpreter(c) ==
  calls[c].kind = "installPackage" /\ calls[c].pyodide = 0

\* C26: installPackage called while the interpreter is absent throws the
\* not-initialized error without invoking the installer, and the call leaves
\* loadedPackages unchanged.
InstallNotInitialized ==
  /\ [](\A c \in Calls :
          InstallWithoutInterpreter(c)
            => /\ Settled(c)
               /\ calls[c].outcome = "throw"
               /\ calls[c].thrown.kind = "NotInitialized"
               /\ calls[c].installs = 0)
  /\ [][\A c \in Calls :
          (calls'[c] # calls[c] /\ InstallWithoutInterpreter(c)')
            => loadedPackages' = loadedPackages]_vars

InstallRejectedWhileLoading ==
  \E c \in Calls : InstallWithoutInterpreter(c) /\ Settled(c) /\ loading

\* C30: whenever isLoading is false the message list of ChatBox holds no
\* loading placeholder; and while isLoading is true no request is sent, so at
\* most one request is in flight.
ChatNoStalePlaceholder ==
  /\ [](/\ ~chat.isLoading
             => \A i \in 1..Len(chat.messages) : ~chat.messages[i].loading
        /\ Cardinality(chat.pending) <= 1)
  /\ [][chat.isLoading => chat'.sent = chat.sent]_vars

ChatRequestFailed ==
  ~chat.isLoading /\ chat.error = "set" /\ Len(chat.messages) >= 1

\* C24: in a CodeEditor without initialCode, switching the language makes
\* the editor content the template of the newly selected language.
LanguageSwitchLoadsTemplate ==
  [][(~Truthy(editor.initialCode) /\ editor'.language # editor.language)
       => editor'.code = Template(editor'.language)]_vars

\* The call a handler awaits under start number seq is on record.
AwaitedCall(seq) == seq # 0 /\ \E c \in Calls : calls[c].seq = seq
AwaitedSettled(seq) == seq # 0 /\ \E c \in Calls : calls[c].seq = seq /\ Settled(c)

\* C27: the CodeEditor never has a run and a package install in progress at
\* the same time: its installPackage call and its runPython call are never
\* in flight together.
EditorRunInstallExclusive ==
  /\ ~(editor.isExecuting /\ editor.isInstallingPackage)
  /\ \A c, d \in Calls :
       (calls[c].seq = editor.run /\ calls[d].seq = editor.inst)
         => ~(InFlight(calls[c]) /\ InFlight(calls[d]))

\* C28: a component starts a run only while its isExecuting flag is false,
\* and every runPython call in flight is the one run its component is
\* waiting for, so each component has at most one call of its own in flight.
OneRunPerComponent ==
  /\ [](/\ editor.isExecuting <=> editor.run # 0
        /\ box.isExecuting <=> box.run # 0
        /\ \A c \in Calls :
             (IsRun(c) /\ InFlight(calls[c]))
               => /\ calls[c].seq \in {editor.run, box.run}
                  /\ \A d \in Calls : calls[d].seq = calls[c].seq => d = c)
  /\ [][/\ editor'.run \notin {0, editor.run} => ~editor.isExecuting
        /\ box'.run \notin {0, box.run} => ~box.isExecuting]_vars

BothComponentsRunning ==
  /\ editor.isExecuting /\ box.isExecuting
  /\ \E c, d \in Calls :
       /\ c # d /\ InFlight(calls[c]) /\ InFlight(calls[d])
       /\ calls[c].seq = editor.run /\ calls[d].seq = box.run

\* C29: in CodeEditor and in FunctionBox isExecuting is true only while the
\* handler awaits a call on record (the paths that end without a call never
\* leave it set); the step that ends the wait clears the flag whatever the
\* outcome of the call; and once the call has settled the flag is eventually
\* cleared.
RunFlagCleared ==
  /\ [](/\ editor.isExecuting => AwaitedCall(editor.run)
        /\ box.isExecuting => AwaitedCall(box.run))
  /\ [][/\ (editor.run # 0 /\ editor'.run # editor.run) => ~editor'.isExecuting
        /\ (box.run # 0 /\ box'.run # box.run) => ~box'.isExecuting]_vars
  /\ (editor.isExecuting /\ AwaitedSettled(editor.run)) ~> ~editor.isExecuting
  /\ (box.isExecuting /\ AwaitedSettled(box.run)) ~> ~box.isExecuting

BoxReturnedEarly ==
  /\ ~box.isExecuting /\ box.output.k = "stdout"
  /\ ~editor.isExecuting /\ editor.output.k = "Error"

====
